---- MODULE Spec2Model ----
(***************************************************************************)
(* A model of src/models/transformer.py: the Vision Transformer (ViT)     *)
(* regression model and its building blocks PatchEmbedding,               *)
(* MultiHeadAttentionBlock, FeedForward and TransformerBlock.             *)
(*                                                                         *)
(* Tensors are modelled symbolically.  A tensor is a record [dev, data];  *)
(* an image batch is data[b][c][y][x], a token sequence is data[b][t].    *)
(* Every scalar of the input image is the symbol "pixel <<b, c, y, x>>"   *)
(* and every library layer (LayerNorm, Linear, GELU, Dropout, attention)  *)
(* is an uninterpreted function symbol, so that a token is the term the   *)
(* code computes for it.  A term is a record [op, idx, args, dim]: the    *)
(* layer, its integer attributes, its operand terms, and the length of    *)
(* the feature vector it yields.  A token is [term, deps], where deps is  *)
(* the set of coordinates <<b, t>> of the patch-embedding output the      *)
(* token is computed from; after the patch embedding the term of a token  *)
(* is written over the tokens of the stage's input ("in" leaves).         *)
(***************************************************************************)
EXTENDS Integers, Sequences, FiniteSets

VARIABLES
    cuda_available,  \* torch.cuda.is_available() on this machine
    pc,              \* where the program is: constructor, forward stage, exception
    model,           \* the constructed ViT object, or NoModel
    x,               \* the tensor flowing through ViT.forward
    layer,           \* number of TransformerBlocks of transformer_encoder applied
    trace,           \* the sub-modules ViT.forward has called so far, in order
    init_args,       \* the arguments ViT.__init__ was called with
    input            \* the batch ViT.forward was called with: [B, H, W, dev]

vars == <<cuda_available, pc, model, x, layer, trace, init_args, input>>

----------------------------------------------------------------------------
(* Bounds of the model *)
MaxSide == 4       \* image heights and widths range over 1..MaxSide
MaxPatch == 2      \* patch heights and widths range over 1..MaxPatch
MaxChannels == 2   \* in_channels ranges over 1..MaxChannels
MaxBatch == 2      \* batch sizes range over 1..MaxBatch
MaxLayers == 2     \* num_transformer_layers ranges over 0..MaxLayers
MaxClasses == 2    \* num_classes ranges over 1..MaxClasses

(* Default arguments of ViT.__init__ *)
default_img_shape == <<160, 106>>
default_patch_shape == <<32, 53>>
default_in_channels == 4
default_d_model == 512
default_num_transformer_layers == 2
default_mlp_size == 1048
default_num_classes == 1

NoModel == [ok |-> FALSE]
NoTensor == [dev |-> "none", data |-> <<>>]
NoInput == [B |-> 0, H |-> 0, W |-> 0, dev |-> "none"]

Min(a, b) == IF a <= b THEN a ELSE b

----------------------------------------------------------------------------
(* Terms *)
T(op, idx, args, dim) == [op |-> op, idx |-> idx, args |-> args, dim |-> dim]

Pixel(b, c, y, xx) == T("pixel", <<b, c, y, xx>>, <<>>, 1)
In(b, t, dim) == T("in", <<b, t>>, <<>>, dim)

LayerNorm(normalized_shape, t) == T("LayerNorm", <<normalized_shape>>, <<t>>, t.dim)
Linear(in_features, out_features, t) ==
    T("Linear", <<in_features, out_features>>, <<t>>, out_features)
GELU(t) == T("GELU", <<>>, <<t>>, t.dim)
Dropout(t) == T("Dropout", <<>>, <<t>>, t.dim)
Add(s, t) == T("add", <<>>, <<s, t>>, s.dim)

\* The tokens of the stage input a term is computed from.
RECURSIVE Refs(_)
Refs(t) ==
    IF t.op = "in" THEN {t.idx}
    ELSE UNION {Refs(t.args[k]) : k \in 1..Len(t.args)}

\* A token of the next stage: its term over the tokens of `data`, and the
\* coordinates it inherits from the tokens the term reads.
Tok(term, data) ==
    [term |-> term,
     deps |-> UNION {data[r[1]][r[2]].deps : r \in Refs(term)}]

----------------------------------------------------------------------------
(* PatchEmbedding *)

\* eval(): Python's builtin takes a string (source text) and raises
\* TypeError for any other object, a tuple included.
Eval(arg) ==
    IF arg.kind = "str" THEN [ok |-> TRUE, val |-> arg.val]
    ELSE [ok |-> FALSE, val |-> <<>>]

PatchEmbedding_init(in_channels, d_model, img_shape, patch_shape) ==
    LET p == Eval(patch_shape)
        i == Eval(img_shape)
    IN IF ~p.ok \/ ~i.ok THEN NoModel
       ELSE [ok |-> TRUE,
             d_model |-> d_model,
             patch_height |-> p.val[1], patch_width |-> p.val[2],
             image_height |-> i.val[1], image_width |-> i.val[2],
             patch_dim |-> in_channels * p.val[1] * p.val[2],
             num_patches |-> (i.val[1] \div p.val[1]) * (i.val[2] \div p.val[2])]

\* Variant: a rearrangement that floors instead of requiring divisibility.
RearrangeOk_floor(img, p1, p2) == TRUE

\* Rearrange('b c (h p1) (w p2) -> b (h w) (p1 p2 c)'): defined when p1
\* divides the height and p2 the width (einops raises otherwise).
RearrangeOk(img, p1, p2) ==
    /\ Len(img[1][1]) % p1 = 0
    /\ Len(img[1][1][1]) % p2 = 0

\* Variant: the tokens in column-major order of the patch grid, 'b (w h) (p1 p2 c)'.
Rearrange_at_column_major(img, p1, p2, b, t, f) ==
    LET C == Len(img[1])
        h_ == Len(img[1][1]) \div p1
        h == (t - 1) % h_
        w == (t - 1) \div h_
        c == (f - 1) % C
        j == ((f - 1) \div C) % p2
        i == (f - 1) \div (C * p2)
    IN img[b][c + 1][h * p1 + i + 1][w * p2 + j + 1]

\* Variant: the column inside the patch taken without the channel stride.
Rearrange_at_no_channel_stride(img, p1, p2, b, t, f) ==
    LET C == Len(img[1])
        w_ == Len(img[1][1][1]) \div p2
        h == (t - 1) \div w_
        w == (t - 1) % w_
        c == (f - 1) % C
        j == (f - 1) % p2
        i == (f - 1) \div (C * p2)
    IN img[b][c + 1][h * p1 + i + 1][w * p2 + j + 1]

\* The element the rearrangement puts at feature f of token t of batch
\* element b (all 1-based): with t - 1 = h * w_ + w on the patch grid and
\* f - 1 = (i * p2 + j) * C + c, it is img[b, c, h * p1 + i, w * p2 + j].
Rearrange_at(img, p1, p2, b, t, f) ==
    LET C == Len(img[1])
        w_ == Len(img[1][1][1]) \div p2
        h == (t - 1) \div w_
        w == (t - 1) % w_
        c == (f - 1) % C
        j == ((f - 1) \div C) % p2
        i == (f - 1) \div (C * p2)
    IN img[b][c + 1][h * p1 + i + 1][w * p2 + j + 1]

\* The number of tokens the rearrangement yields: (h w).
Rearrange_tokens(img, p1, p2) ==
    (Len(img[1][1]) \div p1) * (Len(img[1][1][1]) \div p2)

Rearrange(img, p1, p2) ==
    [b \in 1..Len(img) |->
      [t \in 1..Rearrange_tokens(img, p1, p2) |->
        [f \in 1..(p1 * p2 * Len(img[1])) |-> Rearrange_at(img, p1, p2, b, t, f)]]]

\* to_patch_embedding: Rearrange, LayerNorm(patch_dim), Linear(patch_dim, d_model),
\* LayerNorm(d_model), the last three applied to each token.
to_patch_embedding(pe, img) ==
    LET r == Rearrange(img, pe.patch_height, pe.patch_width)
    IN [b \in 1..Len(r) |->
         [t \in 1..Len(r[b]) |->
            LayerNorm(pe.d_model,
              Linear(pe.patch_dim, pe.d_model,
                LayerNorm(pe.patch_dim,
                  T("patch", <<>>, r[b][t], Len(r[b][t])))))]]

cls_token(d_model) == T("cls_token", <<>>, <<>>, d_model)
pos_embedding(i, d_model) == T("pos_embedding", <<i>>, <<>>, d_model)

\* The device of the operand added at line 40.
PosDevice(cuda, param_dev) == IF cuda THEN "cuda" ELSE param_dev

\* Variant: the slice pos_embedding[:, :1], its one row added to every token.
PosIndex_first_row(i, m) == 0

\* The index of pos_embedding[:, :(n + 1)] that lands on token i (0-based) of
\* a sequence of n + 1 tokens: the slice has m = min(n + 1, num_patches + 1)
\* rows, and a slice of one row is broadcast over the token axis.
PosIndex(i, m) == IF m = 1 THEN 0 ELSE i
PosBroadcastOk(n, m) == m = n + 1 \/ m = 1

\* torch.cat((cls_tokens, x), dim=1): the class token, then the patch tokens.
cat_cls(d_model, e) ==
    [b \in 1..Len(e) |->
      [t \in 1..(Len(e[b]) + 1) |-> IF t = 1 THEN cls_token(d_model) ELSE e[b][t - 1]]]

\* x += pos_embedding[:, :(n + 1)]
add_pos(pe, n, seq) ==
    [b \in 1..Len(seq) |->
      [t \in 1..Len(seq[b]) |->
         [term |-> Add(seq[b][t],
                       pos_embedding(PosIndex(t - 1, Min(n + 1, pe.num_patches + 1)),
                                     pe.d_model)),
          deps |-> {<<b, t>>}]]]

PatchEmbedding_forward_data(pe, img) ==
    LET e == to_patch_embedding(pe, img)
    IN add_pos(pe, Len(e[1]), cat_cls(pe.d_model, e))

----------------------------------------------------------------------------
(* ViT.__init__ *)

Arg(kind, val) == [kind |-> kind, val |-> val]

NoArgs ==
    [img_shape |-> Arg("none", <<>>), patch_shape |-> Arg("none", <<>>),
     in_channels |-> 0, num_transformer_layers |-> 0, num_classes |-> 0]

Sides == 1..MaxSide
PatchSides == 1..MaxPatch

\* Calls of the constructor: ViT() with its defaults, and calls that give the
\* two shapes either as tuples or as the source text of tuples.
CtorArgs ==
    {[img_shape |-> Arg("tuple", default_img_shape),
      patch_shape |-> Arg("tuple", default_patch_shape),
      in_channels |-> default_in_channels,
      num_transformer_layers |-> default_num_transformer_layers,
      num_classes |-> default_num_classes]}
    \cup
    [img_shape : {Arg(k, <<h, w>>) : k \in {"tuple", "str"}, h \in Sides, w \in Sides},
     patch_shape : {Arg(k, <<h, w>>) : k \in {"tuple", "str"}, h \in PatchSides, w \in PatchSides},
     in_channels : 1..MaxChannels,
     num_transformer_layers : 0..MaxLayers,
     num_classes : 1..MaxClasses]

ViT_new(a) ==
    LET pe == PatchEmbedding_init(a.in_channels, default_d_model, a.img_shape, a.patch_shape)
    IN IF ~pe.ok THEN NoModel
       ELSE [ok |-> TRUE,
             patch_embedding_layer |-> pe,
             in_channels |-> a.in_channels,
             num_transformer_layers |-> a.num_transformer_layers,
             num_classes |-> a.num_classes,
             device |-> "cpu"]

ViT_init(a) ==
    /\ pc = "new"
    /\ model' = ViT_new(a)
    /\ init_args' = a
    /\ pc' = IF model'.ok THEN "constructed" ELSE "TypeError"
    /\ UNCHANGED <<cuda_available, x, layer, trace, input>>

----------------------------------------------------------------------------
(* nn.Module.to: every parameter of the model (pos_embedding and cls_token  *)
(* included, being nn.Parameters) moves to the device.                      *)
Devices(cuda) == IF cuda THEN {"cpu", "cuda"} ELSE {"cpu"}

To(dev) ==
    /\ pc = "constructed"
    /\ dev \in Devices(cuda_available)
    /\ dev # model.device
    /\ model' = [model EXCEPT !.device = dev]
    /\ UNCHANGED <<cuda_available, pc, x, layer, trace, init_args, input>>

----------------------------------------------------------------------------
(* ViT.forward, one step per sub-module it calls *)

\* A batch of B images [B, C, H, W] of symbolic pixels on a device.
Image(B, C, H, W, dev) ==
    [dev |-> dev,
     data |-> [b \in 1..B |-> [c \in 1..C |-> [y \in 1..H |-> [xx \in 1..W |->
                 Pixel(b, c, y, xx)]]]]]

Inputs(devs) == [B : 1..MaxBatch, H : 1..(MaxSide + MaxPatch), W : Sides, dev : devs]

\* The image sizes ViT.forward is called with: the configured size, one row
\* of patches taller or shorter, and an image of exactly one patch.
InputShapes(pe) ==
    {<<pe.image_height + k * pe.patch_height, pe.image_width>> : k \in {-1, 0, 1}}
    \cup {<<pe.patch_height, pe.patch_width>>}

\* ViT.forward is entered with a batch whose channel count is in_channels.
Call(i) ==
    /\ pc = "constructed"
    /\ <<i.H, i.W>> \in InputShapes(model.patch_embedding_layer)
    /\ x' = Image(i.B, model.in_channels, i.H, i.W, i.dev)
    /\ input' = i
    /\ pc' = "patch_embedding_layer"
    /\ layer' = 0
    /\ trace' = <<>>
    /\ UNCHANGED <<cuda_available, model, init_args>>

\* The exception PatchEmbedding.forward ends with, or "ok".
PatchEmbedding_forward_outcome(pe, param_dev, cuda, img) ==
    IF ~RearrangeOk(img.data, pe.patch_height, pe.patch_width) THEN "EinopsError"
    ELSE IF img.dev # param_dev THEN "DeviceError"
    ELSE IF PosDevice(cuda, param_dev) # img.dev THEN "DeviceError"
    ELSE LET n == (Len(img.data[1][1]) \div pe.patch_height)
                  * (Len(img.data[1][1][1]) \div pe.patch_width)
         IN IF ~PosBroadcastOk(n, Min(n + 1, pe.num_patches + 1)) THEN "ShapeError"
            ELSE "ok"

PatchEmbedding_forward ==
    /\ pc = "patch_embedding_layer"
    /\ LET pe == model.patch_embedding_layer
           r == PatchEmbedding_forward_outcome(pe, model.device, cuda_available, x)
       IN IF r = "ok"
          THEN /\ x' = [dev |-> x.dev, data |-> PatchEmbedding_forward_data(pe, x.data)]
               /\ pc' = "transformer_encoder"
               /\ trace' = Append(trace, <<"patch_embedding_layer", 0>>)
          ELSE /\ x' = NoTensor
               /\ pc' = r
               /\ UNCHANGED trace
    /\ UNCHANGED <<cuda_available, model, layer, init_args, input>>

\* MultiHeadAttentionBlock.forward for the token at [b, t] of a tensor
\* [B, n, d_model]: nn.MultiheadAttention is constructed without batch_first,
\* so it reads its input as (sequence, batch, embedding) and attends over
\* axis 0.  idx is the position of the query on the attended axis, args are
\* the keys/values in the order of that axis.
MultiHeadAttentionBlock_forward(data, b, t) ==
    LET d == data[b][t].term.dim
    IN T("MultiheadAttention", <<b>>,
         [l \in 1..Len(data) |-> LayerNorm(d, In(l, t, d))], d)

\* FeedForward.forward: mlp(layernorm(y)).
FeedForward_forward(y) ==
    LET d == y.dim
    IN Dropout(Linear(default_mlp_size, d,
         Dropout(GELU(Linear(d, default_mlp_size, LayerNorm(d, y))))))

\* Variant: the second residual adds the input of the block instead of y.
TransformerBlock_token_input_residual(data, b, t) ==
    LET xin == In(b, t, data[b][t].term.dim)
        y == Add(MultiHeadAttentionBlock_forward(data, b, t), xin)
    IN Add(FeedForward_forward(y), xin)

TransformerBlock_token(data, b, t) ==
    LET y == Add(MultiHeadAttentionBlock_forward(data, b, t),
                 In(b, t, data[b][t].term.dim))
    IN Add(FeedForward_forward(y), y)

TransformerBlock_forward(data) ==
    [b \in 1..Len(data) |->
      [t \in 1..Len(data[b]) |-> Tok(TransformerBlock_token(data, b, t), data)]]

\* nn.Sequential calls the blocks in order; the guard is the loop condition.
EncoderStep ==
    /\ pc = "transformer_encoder"
    /\ layer < model.num_transformer_layers
    /\ x' = [x EXCEPT !.data = TransformerBlock_forward(x.data)]
    /\ layer' = layer + 1
    /\ trace' = Append(trace, <<"TransformerBlock", layer + 1>>)
    /\ UNCHANGED <<cuda_available, pc, model, init_args, input>>

\* classifier: LayerNorm(d_model) then Linear(d_model, num_classes), per token.
classifier_token(b, t, d, num_classes) ==
    Linear(d, num_classes, LayerNorm(d, In(b, t, d)))

classifier(data, num_classes) ==
    [b \in 1..Len(data) |->
      [t \in 1..Len(data[b]) |->
         Tok(classifier_token(b, t, data[b][t].term.dim, num_classes), data)]]

\* Variant: the head is not held back until the last block has run.
Classifier_before_encoder ==
    /\ pc = "transformer_encoder"
    /\ layer <= model.num_transformer_layers
    /\ x' = [x EXCEPT !.data = classifier(x.data, model.num_classes)]
    /\ pc' = "mean"
    /\ trace' = Append(trace, <<"classifier", 0>>)
    /\ UNCHANGED <<cuda_available, model, layer, init_args, input>>

Classifier ==
    /\ pc = "transformer_encoder"
    /\ layer = model.num_transformer_layers
    /\ x' = [x EXCEPT !.data = classifier(x.data, model.num_classes)]
    /\ pc' = "mean"
    /\ trace' = Append(trace, <<"classifier", 0>>)
    /\ UNCHANGED <<cuda_available, model, layer, init_args, input>>

\* Variant: x.mean(dim = 0), the average over the batch axis.
mean_dim0(data) ==
    [t \in 1..Len(data[1]) |->
       Tok(T("mean", <<0>>,
             [b \in 1..Len(data) |-> In(b, t, data[b][t].term.dim)],
             data[1][1].term.dim),
           data)]

\* x.mean(dim = 1): the average over the token axis, which is removed.
mean_dim1(data) ==
    [b \in 1..Len(data) |->
       Tok(T("mean", <<1>>,
             [t \in 1..Len(data[b]) |-> In(b, t, data[b][t].term.dim)],
             data[b][1].term.dim),
           data)]

Mean ==
    /\ pc = "mean"
    /\ x' = [x EXCEPT !.data = mean_dim1(x.data)]
    /\ pc' = "done"
    /\ trace' = Append(trace, <<"mean", 0>>)
    /\ UNCHANGED <<cuda_available, model, layer, init_args, input>>

----------------------------------------------------------------------------
(* Specifications *)

\* A machine without CUDA: the model and every input are on the CPU.
Init ==
    /\ cuda_available = FALSE
    /\ pc = "new"
    /\ model = NoModel
    /\ x = NoTensor
    /\ layer = 0
    /\ trace = <<>>
    /\ init_args = NoArgs
    /\ input = NoInput

Next ==
    \/ pc = "new" /\ \E a \in CtorArgs : ViT_init(a)
    \/ pc = "constructed" /\ \E inp \in Inputs({"cpu"}) : Call(inp)
    \/ PatchEmbedding_forward
    \/ EncoderStep
    \/ Classifier
    \/ Mean

Spec == Init /\ [][Next]_vars

\* Machines with and without CUDA, the model and the input placed on any
\* device the machine has; a few small configurations.
DevCtorArgs ==
    [img_shape : {Arg("str", <<h, w>>) : h \in 1..2, w \in 1..2},
     patch_shape : {Arg("str", <<1, w>>) : w \in 1..2},
     in_channels : {1},
     num_transformer_layers : 0..1,
     num_classes : {1}]

InitDev ==
    /\ cuda_available \in BOOLEAN
    /\ pc = "new"
    /\ model = NoModel
    /\ x = NoTensor
    /\ layer = 0
    /\ trace = <<>>
    /\ init_args = NoArgs
    /\ input = NoInput

NextDev ==
    \/ pc = "new" /\ \E a \in DevCtorArgs : ViT_init(a)
    \/ \E dev \in {"cpu", "cuda"} : To(dev)
    \/ pc = "constructed" /\ \E inp \in Inputs(Devices(cuda_available)) : Call(inp)
    \/ PatchEmbedding_forward
    \/ EncoderStep
    \/ Classifier
    \/ Mean

SpecDev == InitDev /\ [][NextDev]_vars
----------------------------------------------------------------------------
(* Vocabulary of the properties *)

PE == model.patch_embedding_layer

\* The input's height and width are multiples of the patch height and width.
Divisible == input.H % PE.patch_height = 0 /\ input.W % PE.patch_width = 0

\* The input has the image size the model was configured with.
ConfiguredSize == input.H = PE.image_height /\ input.W = PE.image_width

\* The patch grid of the input.
GridRows == input.H \div PE.patch_height
GridCols == input.W \div PE.patch_width

\* PatchEmbedding.forward has returned and no later stage has run: x is its result.
AfterEmbedding == pc = "transformer_encoder" /\ layer = 0

\* The shape [B, n, d] of a token sequence, all of whose rows have n tokens of length d.
IsShape3(data, B, n, d) ==
    /\ Len(data) = B
    /\ \A b \in 1..Len(data) :
         /\ Len(data[b]) = n
         /\ \A t \in 1..Len(data[b]) : data[b][t].term.dim = d

\* The pixels in the feature vector of a patch token, in feature order
\* (the empty sequence for a token that holds no patch).
RECURSIVE PatchVec(_)
PatchVec(t) ==
    IF t.op = "patch" THEN [f \in 1..Len(t.args) |-> t.args[f].idx]
    ELSE IF t.args = <<>> THEN <<>>
    ELSE PatchVec(t.args[1])

\* The pixels of batch element b inside cell (r, c) (0-based) of the patch grid.
CellPixels(b, r, c) ==
    {<<b, ch, y, xx>> : ch \in 1..model.in_channels,
                        y \in (r * PE.patch_height + 1)..((r + 1) * PE.patch_height),
                        xx \in (c * PE.patch_width + 1)..((c + 1) * PE.patch_width)}

Range(f) == {f[k] : k \in 1..Len(f)}

----------------------------------------------------------------------------
(* C1: ViT.forward maps a batch [B, in_channels, H, W] of the configured   *)
(* size to an output [B, num_classes], for every B and every number of     *)
(* layers; the token axis is removed by averaging the head's output over   *)
(* all num_patches + 1 tokens of each batch element.                       *)
C1_OutputShape ==
    (pc = "done" /\ ConfiguredSize) =>
        /\ Len(x.data) = input.B
        /\ \A b \in 1..Len(x.data) :
             /\ x.data[b].term.dim = model.num_classes
             /\ x.data[b].term.op = "mean"
             /\ x.data[b].term.args =
                  [t \in 1..(PE.num_patches + 1) |-> In(b, t, model.num_classes)]

C1_Witness ==
    /\ pc = "done" /\ ConfiguredSize
    /\ input.B = MaxBatch /\ PE.num_patches >= 2
    /\ model.num_transformer_layers = 0 /\ model.num_classes = 1

(* C2: for an input whose H and W are multiples of the patch height and    *)
(* width, PatchEmbedding.forward returns [B, num_patches + 1, d_model]     *)
(* with num_patches = (H // patch_height) * (W // patch_width); token 0 is *)
(* the class token for every batch element and tokens 1..num_patches are   *)
(* the patches of the grid in row-major order.                             *)
C2_PatchSequence ==
    AfterEmbedding =>
        /\ Divisible
        /\ IsShape3(x.data, input.B, GridRows * GridCols + 1, PE.d_model)
        /\ ConfiguredSize => GridRows * GridCols = PE.num_patches
        /\ \A b \in 1..Len(x.data) :
             /\ x.data[b][1].term.args[1] = cls_token(PE.d_model)
             /\ \A r \in 0..(GridRows - 1), c \in 0..(GridCols - 1) :
                  Range(PatchVec(x.data[b][r * GridCols + c + 2].term))
                    = CellPixels(b, r, c)

C2_Witness ==
    /\ AfterEmbedding /\ ConfiguredSize
    /\ GridRows >= 2 /\ GridCols >= 2 /\ PE.patch_height >= 2
    /\ input.B = MaxBatch

(* C6: when the patch shape divides the image shape the rearrangement is a *)
(* bijection on pixel positions: every input element (c, y, x) of a batch  *)
(* element is in exactly one feature slot of exactly one patch token, and  *)
(* num_patches * patch_dim = in_channels * H * W.                          *)
C6_RearrangeBijection ==
    AfterEmbedding =>
        /\ (Len(x.data[1]) - 1) * PE.patch_dim = model.in_channels * input.H * input.W
        /\ PE.patch_dim = model.in_channels * PE.patch_height * PE.patch_width
        /\ \A b \in 1..Len(x.data) :
             \A c \in 1..model.in_channels, y \in 1..input.H, xx \in 1..input.W :
                Cardinality({tf \in (2..Len(x.data[b])) \X (1..PE.patch_dim) :
                               /\ tf[2] <= Len(PatchVec(x.data[b][tf[1]].term))
                               /\ PatchVec(x.data[b][tf[1]].term)[tf[2]] = <<b, c, y, xx>>})
                  = 1

C6_Witness ==
    /\ AfterEmbedding
    /\ model.in_channels >= 2 /\ PE.patch_width >= 2 /\ PE.patch_height >= 2
    /\ GridRows >= 2 /\ GridCols >= 2

(* C3: PatchEmbedding and ViT accept img_shape and patch_shape given as     *)
(* tuples of ints; ViT() with its default arguments is constructed with     *)
(* patch height/width 32/53 and image height/width 160/106.                 *)
C3_TupleShapesAccepted ==
    (pc # "new" /\ init_args.img_shape.kind = "tuple"
                /\ init_args.patch_shape.kind = "tuple") =>
        /\ pc # "TypeError"
        /\ model.ok
        /\ <<PE.patch_height, PE.patch_width>> = init_args.patch_shape.val
        /\ <<PE.image_height, PE.image_width>> = init_args.img_shape.val

(* C4: ViT.forward applies the patch embedding first, then exactly          *)
(* num_transformer_layers TransformerBlocks, block i after block i - 1,     *)
(* then the regression head, then the mean; with no layers the head comes   *)
(* right after the patch embedding.                                         *)
ExpectedTrace(L) ==
    <<<<"patch_embedding_layer", 0>>>>
    \o [i \in 1..L |-> <<"TransformerBlock", i>>]
    \o <<<<"classifier", 0>>, <<"mean", 0>>>>

C4_StageOrder ==
    model.ok =>
        LET e == ExpectedTrace(model.num_transformer_layers)
        IN /\ Len(trace) <= Len(e)
           /\ trace = SubSeq(e, 1, Len(trace))
           /\ pc = "done" => trace = e
           /\ pc = "mean" => Len(trace) = Len(e) - 1
           /\ pc = "transformer_encoder" => Len(trace) = layer + 1
           /\ pc = "mean" =>
                \A b \in 1..Len(x.data) : \A t \in 1..Len(x.data[b]) :
                   /\ x.data[b][t].term =
                        Linear(PE.d_model, model.num_classes,
                               LayerNorm(PE.d_model, In(b, t, PE.d_model)))
                   /\ model.num_transformer_layers = 0 =>
                        x.data[b][t].deps = {<<b, t>>}

C4_Witness ==
    /\ pc = "done"
    /\ model.num_transformer_layers = MaxLayers
    /\ Len(trace) = MaxLayers + 3

(* C5: TransformerBlock.forward computes y = MSA(x) + x and returns         *)
(* FF(y) + y; each residual term is the un-normalized input of its          *)
(* sub-block, the layer normalization being applied inside the sub-block;   *)
(* the output has the shape [B, n, d_model] of the input, along the whole   *)
(* stack of blocks.                                                         *)
\* The operand of the LayerNorm that a chain of one-operand layers starts with.
RECURSIVE NormalizedOperand(_)
NormalizedOperand(t) ==
    IF t.op = "LayerNorm" THEN t.args[1]
    ELSE IF Len(t.args) = 1 THEN NormalizedOperand(t.args[1])
    ELSE t

C5_ResidualBlock ==
    (pc = "transformer_encoder") =>
        /\ IsShape3(x.data, input.B, GridRows * GridCols + 1, PE.d_model)
        /\ layer >= 1 =>
             \A b \in 1..Len(x.data) : \A t \in 1..Len(x.data[b]) :
                LET out == x.data[b][t].term
                    y == out.args[2]
                    xin == In(b, t, PE.d_model)
                IN /\ out.op = "add" /\ y.op = "add"
                   /\ y.args[2] = xin
                   /\ y.args[1].op = "MultiheadAttention"
                   /\ \E k \in 1..Len(y.args[1].args) :
                         y.args[1].args[k] = LayerNorm(PE.d_model, xin)
                   /\ \A k \in 1..Len(y.args[1].args) :
                         y.args[1].args[k].op = "LayerNorm"
                   /\ out.args[1].op = "Dropout"
                   /\ NormalizedOperand(out.args[1]) = y

C5_Witness ==
    /\ pc = "transformer_encoder" /\ layer = MaxLayers
    /\ input.B >= 2 /\ Len(x.data[1]) >= 3

(* C7: when the patch height does not divide the image height or the patch  *)
(* width the image width, the model returns no output computed from a       *)
(* truncated image: the forward pass ends with an error, although           *)
(* num_patches was computed with floor division at construction.            *)
ForwardEntered == pc \notin {"new", "TypeError", "constructed", "patch_embedding_layer"}

C7_NoTruncation ==
    (ForwardEntered /\ ~Divisible) => (pc = "EinopsError" /\ x = NoTensor)

C7_Witness ==
    /\ pc = "EinopsError" /\ ConfiguredSize
    /\ PE.image_height % PE.patch_height # 0
    /\ PE.num_patches >= 1

C9_BatchIndependence ==
    pc = "done" =>
        \A b \in 1..Len(x.data) : \A d \in x.data[b].deps : d[1] = b

(* C10: device consistency: whenever the parameters of the model and the    *)
(* input are on the same device, the addition of the positional embedding   *)
(* in PatchEmbedding.forward does not fail with a device mismatch.          *)
C10_DeviceConsistency ==
    (ForwardEntered /\ input.dev = model.device) => pc # "DeviceError"
====
